---- MODULE Spec2Model ----
(***************************************************************************)
(* A model of slurm-array-submit: the combinatorial index engine           *)
(* (count_product, nth_product), the parameter-file loader, the scheduler  *)
(* config merge, command substitution and the two driver CLIs.             *)
(*                                                                         *)
(* Python values are modelled as follows.                                  *)
(*   - an ordered dict is a sequence of <<key, value>> pairs, keys unique; *)
(*   - a call returns [err |-> "none", val |-> v] or raises                *)
(*     [err |-> <exception name>, val |-> <<>>];                           *)
(*   - a format template is the sequence of its parsed pieces, each a      *)
(*     literal [lit |-> text] or a replacement field [field |-> name];     *)
(*     a formatted string is the sequence of its rendered pieces;          *)
(*   - the strings that overrides_to_dict splits are sequences of          *)
(*     one-character strings.                                              *)
(***************************************************************************)
EXTENDS Integers, Sequences, FiniteSets, TLC

VARIABLES
    entry,      \* the entry point that was called
    pc,         \* position inside the entry point
    args,       \* the arguments of the call (a record, per entry point)
    locals,     \* local variables of a running CLI main()
    ret,        \* what the call returned or raised
    warnings,   \* the warnings emitted through warnings.warn, in order
    stdout,     \* what was printed to standard output, in order
    files,      \* the script files written by this invocation
    sbatch      \* the sbatch command lines run by this invocation

vars == <<entry, pc, args, locals, ret, warnings, stdout, files, sbatch>>

-----------------------------------------------------------------------------
(* Bounds of the model. *)

MaxLists == 3       \* number of value-lists handed to the index engine
MaxLen == 3         \* length of one value-list
MaxIndex == 29      \* |index| tried against the index engine
MaxParamLen == 2    \* length of one value-list of a parameter set
MaxNth == 7         \* |nth| tried against a parameter set
MaxTemplate == 2    \* number of pieces of a command template
MaxOverrides == 2   \* number of --sbatch overrides
MaxArrayPieces == 3 \* number of pieces of an --array template

-----------------------------------------------------------------------------
(* Python helpers. *)

Ok(v) == [err |-> "none", val |-> v]

Raise(e) == [err |-> e, val |-> <<>>]

\* reversed(seq)
Reverse(s) == [k \in 1..Len(s) |-> s[Len(s) + 1 - k]]

\* reduce(mul, lengths) on a non-empty list: a left fold from its first item
RECURSIVE reduce_mul_from(_, _)
reduce_mul_from(acc, rest) ==
    IF rest = <<>> THEN acc
    ELSE reduce_mul_from(acc * Head(rest), Tail(rest))

reduce_mul(lengths) == reduce_mul_from(Head(lengths), Tail(lengths))

\* dict.keys() / dict.values() of an ordered dict
Keys(d) == [k \in 1..Len(d) |-> d[k][1]]

Values(d) == [k \in 1..Len(d) |-> d[k][2]]

HasKey(d, key) == \E k \in 1..Len(d) : d[k][1] = key

Get(d, key) == d[CHOOSE k \in 1..Len(d) : d[k][1] = key][2]

-----------------------------------------------------------------------------
(* The combinatorial index engine. *)

\* count_product adding the lengths instead of multiplying them
count_product_sum(lists) ==
    LET lengths == [k \in 1..Len(lists) |-> Len(lists[k])]
        RECURSIVE Sum(_)
        Sum(l) == IF l = <<>> THEN 0 ELSE Head(l) + Sum(Tail(l))
    IN  IF Len(lengths) = 0 THEN 1 ELSE Sum(lengths)

count_product(lists) ==
    LET lengths == [k \in 1..Len(lists) |-> Len(lists[k])]
    IN  IF Len(lengths) = 0 THEN 1 ELSE reduce_mul(lengths)

get_count(params) == count_product(Values(params))

\* the loop of nth_product: one digit per pool, least significant first
RECURSIVE nth_loop(_, _, _)
nth_loop(pools, index, result) ==
    IF pools = <<>> THEN result
    ELSE LET pool == Head(pools)
             length == Len(pool)
         IN  nth_loop(Tail(pools), index \div length,
                      Append(result, pool[(index % length) + 1]))

\* the wraparound landing one short
nth_wrap_short(index, total) == IF index < 0 THEN index + total - 1 ELSE index

nth_wrap(index, total) == IF index < 0 THEN index + total ELSE index

\* nth_product without reversed(): the first list varies fastest
nth_product_unreversed(index, lists) ==
    LET pools == lists
        lengths == [k \in 1..Len(pools) |-> Len(pools[k])]
    IN  IF Len(lengths) = 0 THEN Ok(<<>>)
        ELSE LET total == reduce_mul(lengths)
                 wrapped == IF index < 0 THEN index + total ELSE index
             IN  IF ~(0 <= wrapped /\ wrapped < total) THEN Raise("IndexError")
                 ELSE Ok(nth_loop(pools, wrapped, <<>>))

nth_product(index, lists) ==
    LET pools == Reverse(lists)
        lengths == [k \in 1..Len(pools) |-> Len(pools[k])]
    IN  IF Len(lengths) = 0 THEN Ok(<<>>)
        ELSE LET total == reduce_mul(lengths)
                 wrapped == nth_wrap(index, total)
             IN  IF ~(0 <= wrapped /\ wrapped < total) THEN Raise("IndexError")
                 ELSE Ok(Reverse(nth_loop(pools, wrapped, <<>>)))

-----------------------------------------------------------------------------
(* Python objects whose type the code tests, and format templates. *)

PyStr(s) == [type |-> "str", str |-> s]

PyInt(n) == [type |-> "int", int |-> n]

PyList(l) == [type |-> "list", list |-> l]

None == [type |-> "None"]

isinstance(obj, type) == obj.type = type

Lit(text) == [kind |-> "lit", text |-> text]

Field(name) == [kind |-> "field", text |-> name]

\* zip(a, b)
Zip(a, b) ==
    [k \in 1..(IF Len(a) < Len(b) THEN Len(a) ELSE Len(b)) |-> <<a[k], b[k]>>]

\* d[key] = val on an ordered dict: in place for a key it holds, else appended
DictSet(d, key, val) ==
    IF HasKey(d, key)
    THEN [k \in 1..Len(d) |-> IF d[k][1] = key THEN <<key, val>> ELSE d[k]]
    ELSE Append(d, <<key, val>>)

\* str.format_map(mapping) / str.format(**mapping): the pieces are rendered
\* left to right, a field by str() of the value its name looks up, and the
\* first name the mapping lacks raises KeyError
RECURSIVE format_pieces(_, _, _)
format_pieces(template, mapping, out) ==
    IF template = <<>> THEN Ok(out)
    ELSE LET piece == Head(template)
         IN  IF piece.kind = "lit"
             THEN format_pieces(Tail(template), mapping, Append(out, piece.text))
             ELSE IF ~HasKey(mapping, piece.text) THEN Raise("KeyError")
             ELSE format_pieces(Tail(template), mapping,
                                Append(out, ToString(Get(mapping, piece.text))))

\* a format_map that leaves an unknown placeholder in place
RECURSIVE format_pieces_lenient(_, _, _)
format_pieces_lenient(template, mapping, out) ==
    IF template = <<>> THEN Ok(out)
    ELSE LET piece == Head(template)
         IN  format_pieces_lenient(Tail(template), mapping,
                 Append(out, IF piece.kind = "lit" \/ ~HasKey(mapping, piece.text)
                             THEN piece.text
                             ELSE ToString(Get(mapping, piece.text))))

format_map_lenient(template, mapping) ==
    format_pieces_lenient(template, mapping, <<>>)

format_map(template, mapping) == format_pieces(template, mapping, <<>>)

-----------------------------------------------------------------------------
(* The parameter-file loader. *)

\* validate_param_dict without the test of the value
RECURSIVE validate_loop_keys_only(_, _, _)
validate_loop_keys_only(items, outdict, warned) ==
    IF items = <<>> THEN [val |-> outdict, warnings |-> warned]
    ELSE LET key == Head(items)[1]
             val == Head(items)[2]
         IN  IF ~isinstance(key, "str")
             THEN validate_loop_keys_only(Tail(items), outdict,
                      Append(warned, [category |-> "UserWarning",
                                      message |-> "not a string",
                                      key |-> key, val |-> val]))
             ELSE validate_loop_keys_only(Tail(items),
                                          DictSet(outdict, key, val), warned)

\* the loop of validate_param_dict over dict_lists.items()
RECURSIVE validate_loop(_, _, _)
validate_loop(items, outdict, warned) ==
    IF items = <<>> THEN [val |-> outdict, warnings |-> warned]
    ELSE LET key == Head(items)[1]
             val == Head(items)[2]
         IN  IF ~isinstance(key, "str")
             THEN validate_loop(Tail(items), outdict,
                      Append(warned, [category |-> "UserWarning",
                                      message |-> "not a string",
                                      key |-> key, val |-> val]))
             ELSE IF ~isinstance(val, "list")
             THEN validate_loop(Tail(items), outdict,
                      Append(warned, [category |-> "UserWarning",
                                      message |-> "not a list",
                                      key |-> key, val |-> val]))
             ELSE validate_loop(Tail(items), DictSet(outdict, key, val), warned)

validate_param_dict(dict_lists) == validate_loop(dict_lists, <<>>, <<>>)

\* a file on disk: unreadable (missing, or no TOML), or a TOML document
Unreadable == [readable |-> FALSE]

File(data) == [readable |-> TRUE, data |-> data]

read_toml(file) ==
    IF file.readable THEN Ok(file.data) ELSE Raise("OSError")

\* the accepted entries are str -> list: from here on they are held untagged
Untagged(params) ==
    [k \in 1..Len(params) |-> <<params[k][1].str, params[k][2].list>>]

read_paramfile(file) ==
    LET params == read_toml(file)
    IN  IF params.err # "none"
        THEN [err |-> params.err, val |-> <<>>, warnings |-> <<>>]
        ELSE LET validated_params == validate_param_dict(params.val)
             IN  [err |-> "none",
                  val |-> Untagged(validated_params.val),
                  warnings |-> validated_params.warnings]

\* get_array_argument without `count -= 1`
get_array_argument_one_based(template, paramfile) ==
    LET params == read_paramfile(paramfile)
    IN  IF params.err # "none" THEN params
        ELSE LET count == get_count(params.val)
                 array_argument == format_map(template, << <<"count", count>> >>)
             IN  [err |-> array_argument.err,
                  val |-> array_argument.val,
                  warnings |-> params.warnings]

get_array_argument(template, paramfile) ==
    LET params == read_paramfile(paramfile)
    IN  IF params.err # "none" THEN params
        ELSE LET count == get_count(params.val) - 1
                 array_argument == format_map(template, << <<"count", count>> >>)
             IN  [err |-> array_argument.err,
                  val |-> array_argument.val,
                  warnings |-> params.warnings]

-----------------------------------------------------------------------------
(* The scheduler config builder.  Its strings are sequences of characters. *)

DigitChars == <<"0", "1", "2", "3", "4", "5", "6", "7", "8", "9">>

RECURSIVE str_of_nat(_)
str_of_nat(n) ==
    IF n < 10 THEN <<DigitChars[n + 1]>>
    ELSE str_of_nat(n \div 10) \o <<DigitChars[(n % 10) + 1]>>

\* str(obj)
py_str(obj) ==
    IF isinstance(obj, "str") THEN obj.str
    ELSE IF obj.int < 0 THEN <<"-">> \o str_of_nat(-obj.int)
    ELSE str_of_nat(obj.int)

\* s.rsplit(sep, maxsplit=1): the split on the last separator
split_last(s, sep) ==
    IF \E i \in 1..Len(s) : s[i] = sep
    THEN LET i == CHOOSE i \in 1..Len(s) :
                      s[i] = sep /\ \A j \in (i + 1)..Len(s) : s[j] # sep
         IN  <<SubSeq(s, 1, i - 1), SubSeq(s, i + 1, Len(s))>>
    ELSE <<s>>

\* s.split(sep, maxsplit=1)
split_once(s, sep) ==
    IF \E i \in 1..Len(s) : s[i] = sep
    THEN LET i == CHOOSE i \in 1..Len(s) :
                      s[i] = sep /\ \A j \in 1..(i - 1) : s[j] # sep
         IN  <<SubSeq(s, 1, i - 1), SubSeq(s, i + 1, Len(s))>>
    ELSE <<s>>

RECURSIVE overrides_loop(_, _, _)
overrides_loop(overrides, out, warned) ==
    IF overrides = <<>> THEN [val |-> out, warnings |-> warned]
    ELSE LET override == Head(overrides)
             keyval == split_once(override, "=")
         IN  IF Len(keyval) < 2
             THEN overrides_loop(Tail(overrides), out,
                      Append(warned, [category |-> "UserWarning",
                                      message |-> "not of form k=v",
                                      override |-> override]))
             ELSE overrides_loop(Tail(overrides),
                                 DictSet(out, keyval[1], keyval[2]), warned)

overrides_to_dict(overrides) == overrides_loop(overrides, <<>>, <<>>)

\* config.update(other)
RECURSIVE dict_update(_, _)
dict_update(config, other) ==
    IF other = <<>> THEN config
    ELSE dict_update(DictSet(config, Head(other)[1], Head(other)[2]), Tail(other))

\* {str(k): str(v) for k, v in config_base.items()}
RECURSIVE str_items(_, _)
str_items(items, config) ==
    IF items = <<>> THEN config
    ELSE str_items(Tail(items),
                   DictSet(config, py_str(Head(items)[1]), py_str(Head(items)[2])))

get_sbatch_config(configfile, overrides) ==
    LET config_base == read_toml(configfile)
    IN  IF config_base.err # "none"
        THEN [err |-> config_base.err, val |-> <<>>, warnings |-> <<>>]
        ELSE LET config == str_items(config_base.val, <<>>)
             IN  IF overrides # None
                 THEN LET overrides_dict == overrides_to_dict(overrides.list)
                      IN  [err |-> "none",
                           val |-> dict_update(config, overrides_dict.val),
                           warnings |-> overrides_dict.warnings]
                 ELSE [err |-> "none", val |-> config, warnings |-> <<>>]

-----------------------------------------------------------------------------
(* Command substitution. *)

substitute_nth(nth, params, command) ==
    LET nth_values == nth_product(nth, Values(params))
    IN  IF nth_values.err # "none" THEN nth_values
        ELSE LET nth_dict == Zip(Keys(params), nth_values.val)
             IN  format_map(command, nth_dict)

-----------------------------------------------------------------------------
(* The per-task CLI, slurm_utils.main. *)

\* the branches of main() tested in the other order
task_mode_nth_first(count, nth) ==
    IF nth # None THEN "nth"
    ELSE IF count THEN "count"
    ELSE "none"

\* which branch of main() runs for the parsed flags
task_mode(count, nth) ==
    IF count THEN "count"
    ELSE IF nth # None THEN "nth"
    ELSE "none"

\* the branch `elif args.nth is not None`
task_nth(nth, params, command) ==
    IF command = None THEN Raise("ValueError")
    ELSE substitute_nth(nth.int, params, command.str)

-----------------------------------------------------------------------------
(* The batch script and the submission CLI, slurm_sbatch.main. *)

RECURSIVE make_sbatch_headers(_)
make_sbatch_headers(config) ==
    IF config = <<>> THEN <<>>
    ELSE LET key == Head(config)[1]
             val == Head(config)[2]
         IN  << IF Len(key) = 1
                THEN [line |-> "#SBATCH -{key} {val}", key |-> key, val |-> val]
                ELSE [line |-> "#SBATCH --{key}={val}", key |-> key, val |-> val] >>
             \o make_sbatch_headers(Tail(config))

\* the fields of contents_template, in the order the template holds them
make_batchfile_contents(setup, command, paramfile, config) ==
    [sbatch_config |-> make_sbatch_headers(config),
     pwd |-> "os.getcwd()",
     slurm_utils_dir |-> "os.path.dirname(__file__)",
     paramfile |-> paramfile,
     command |-> command,
     setup |-> setup]

\* write_sbatch_file: `outcome` is what the file system does with the write:
\* "written", "no_file" (the file cannot be created) or "partial" (the file is
\* created and the print into it fails)
write_sbatch_file(batchfile_contents, sbatch_filename, outcome) ==
    LET name == IF sbatch_filename = None THEN "tempfile" ELSE sbatch_filename.str
    IN  IF outcome = "written"
        THEN [err |-> "none", val |-> name,
              files |-> {[name |-> name, complete |-> TRUE,
                          contents |-> batchfile_contents]}]
        ELSE IF outcome = "partial"
        THEN [err |-> "OSError", val |-> <<>>,
              files |-> {[name |-> name, complete |-> FALSE,
                          contents |-> batchfile_contents]}]
        ELSE [err |-> "OSError", val |-> <<>>, files |-> {}]

\* subprocess.run without check=True
run_sbatch_unchecked(array_argument, sbatch_filename, returncode) ==
    [err |-> "none",
     val |-> returncode,
     cmd |-> <<"sbatch", [array |-> array_argument], sbatch_filename>>]

\* subprocess.run(["sbatch", ...], check=True): `returncode` is sbatch's exit
\* status
run_sbatch(array_argument, sbatch_filename, returncode) ==
    [err |-> IF returncode # 0 THEN "CalledProcessError" ELSE "none",
     val |-> returncode,
     cmd |-> <<"sbatch", [array |-> array_argument], sbatch_filename>>]

-----------------------------------------------------------------------------
(* Inputs. *)

\* the value-list of `len` values standing at position `pos` of `lists`
ValueList(pos, len) == [j \in 1..len |-> 10 * pos + j]

\* every list of at most MaxLists value-lists of at most MaxLen values
ListsOfLen(n) ==
    { [k \in 1..n |-> ValueList(k, lens[k])] : lens \in [1..n -> 0..MaxLen] }

ListsDomain == UNION { ListsOfLen(n) : n \in 0..MaxLists }

IndexDomain == (-MaxIndex)..MaxIndex

\* the parameter names a parameter file may hold
ParamKeys == {"a", "b"}

\* the sequences without repetition over the set S
RECURSIVE Orderings(_)
Orderings(S) ==
    {<<>>} \cup UNION { { <<x>> \o rest : rest \in Orderings(S \ {x}) } : x \in S }

\* validated parameter sets: an ordered dict of name -> list of values
ParamsWithKeys(keys) ==
    { [k \in 1..Len(keys) |-> <<keys[k], ValueList(k, lens[k])>>] :
        lens \in [1..Len(keys) -> 0..MaxParamLen] }

ParamsDomain == UNION { ParamsWithKeys(keys) : keys \in Orderings(ParamKeys) }

NthDomain == (-MaxNth)..MaxNth

\* the pieces a command template is made of
CommandPieces == {Lit("run"), Field("a"), Field("b"), Field("unknown")}

TemplatesOver(pieces, maxlen) ==
    UNION { [1..n -> pieces] : n \in 0..maxlen }

CommandDomain == TemplatesOver(CommandPieces, MaxTemplate)

\* what a TOML document may hold under a key, and the keys a caller of
\* validate_param_dict may pass
RawKeys == {PyStr("a"), PyStr("b"), PyInt(1)}

RawValues ==
    {PyList(<<>>), PyList(<<11, 12>>), PyList(<<21, 22, 23>>), PyInt(3), PyStr("x")}

RawDictsWithKeys(keys) ==
    { [k \in 1..Len(keys) |-> <<keys[k], vals[k]>>] :
        vals \in [1..Len(keys) -> RawValues] }

RawDictDomain == UNION { RawDictsWithKeys(keys) : keys \in Orderings(RawKeys) }

\* parameter files: TOML keys are strings
ParamFileDicts ==
    UNION { RawDictsWithKeys(keys) : keys \in Orderings({PyStr("a"), PyStr("b")}) }

ParamFileDomain == {Unreadable} \cup { File(d) : d \in ParamFileDicts }

ArrayPieces == {Lit("0-"), Field("count"), Lit("%10"), Field("other")}

ArrayTemplateDomain == TemplatesOver(ArrayPieces, MaxArrayPieces)

\* scheduler config files
ConfigKeys == {PyStr(<<"p">>), PyStr(<<"t", "i", "m", "e">>)}

ConfigValues == {PyInt(2), PyInt(15), PyStr(<<"x">>)}

ConfigDictsWithKeys(keys) ==
    { [k \in 1..Len(keys) |-> <<keys[k], vals[k]>>] :
        vals \in [1..Len(keys) -> ConfigValues] }

ConfigDicts == UNION { ConfigDictsWithKeys(keys) : keys \in Orderings(ConfigKeys) }

ConfigFileDomain == {Unreadable} \cup { File(d) : d \in ConfigDicts }

\* the values of one --sbatch option
OverrideStrings ==
    { <<"p", "=", "1">>, <<"p", "=", "2", "=", "3">>, <<"n", "=", "1">>,
      <<"n", "=">>, <<"=", "1">>, <<"p">>, <<>> }

OverridesDomain ==
    {None} \cup
    { PyList(l) : l \in UNION { [1..n -> OverrideStrings] : n \in 0..MaxOverrides } }

\* the command lines of the per-task CLI
TaskCommands ==
    { None, PyStr(<<Lit("run"), Field("a")>>), PyStr(<<Field("b"), Field("a")>>),
      PyStr(<<Field("unknown")>>) }

TaskNths == {None} \cup { PyInt(i) : i \in NthDomain }

\* the command lines of the submission CLI
SubmitParamFiles ==
    { Unreadable,
      File(<< <<PyStr("a"), PyList(<<11, 12>>)>>,
              <<PyStr("b"), PyList(<<21, 22, 23>>)>> >>),
      File(<< <<PyStr("a"), PyInt(3)>>, <<PyStr("b"), PyList(<<11, 12>>)>> >>) }

SubmitArrays ==
    { <<Lit("0-"), Field("count")>>, <<Lit("0-"), Field("count"), Lit("%10")>>,
      <<Field("other")>> }

SubmitConfigFiles ==
    { Unreadable,
      File(<< <<PyStr(<<"p">>), PyStr(<<"x">>)>>,
              <<PyStr(<<"t", "i", "m", "e">>), PyInt(15)>> >>) }

SubmitOverrides == { None, PyList(<< <<"p", "=", "1">>, <<"p">> >>) }

SubmitFilenames == { None, PyStr("job.sh") }

SubmitSetups == { None, PyStr("module load") }

WriteOutcomes == {"written", "no_file", "partial"}

ReturnCodes == {0, 1}

NoLocals == [none |-> TRUE]

SubmitLocals ==
    [array_argument |-> <<>>, sbatch_config |-> <<>>,
     batchfile_contents |-> <<>>, sbatch_filename |-> "", returncode |-> 0,
     steps |-> <<>>]

Idle(e, a) ==
    /\ entry = e
    /\ pc = "call"
    /\ args = a
    /\ locals = IF e = "slurm_sbatch.main" THEN SubmitLocals ELSE NoLocals
    /\ ret = Ok(<<>>)
    /\ warnings = <<>>
    /\ stdout = <<>>
    /\ files = {}
    /\ sbatch = <<>>

InitCountProduct ==
    \E ls \in ListsDomain : Idle("count_product", [lists |-> ls])

InitNthProduct ==
    \E ls \in ListsDomain, i \in IndexDomain :
        Idle("nth_product", [index |-> i, lists |-> ls])

InitGetCount ==
    \E ps \in ParamsDomain : Idle("get_count", [params |-> ps])

InitSubstituteNth ==
    \E ps \in ParamsDomain, i \in NthDomain, c \in CommandDomain :
        Idle("substitute_nth", [nth |-> i, params |-> ps, command |-> c])

InitValidateParamDict ==
    \E d \in RawDictDomain : Idle("validate_param_dict", [dict_lists |-> d])

InitGetSbatchConfig ==
    \E f \in ConfigFileDomain, o \in OverridesDomain :
        Idle("get_sbatch_config", [configfile |-> f, overrides |-> o])

InitGetArrayArgument ==
    \E t \in ArrayTemplateDomain, f \in ParamFileDomain :
        Idle("get_array_argument", [template |-> t, paramfile |-> f])

InitTaskMain ==
    \E f \in ParamFileDomain, c \in BOOLEAN, n \in TaskNths, t \in TaskCommands :
        Idle("slurm_utils.main",
             [paramfile |-> f, count |-> c, nth |-> n, command |-> t])

InitSubmitMain ==
    \E f \in SubmitParamFiles, a \in SubmitArrays, c \in SubmitConfigFiles,
       o \in SubmitOverrides, n \in SubmitFilenames, s \in SubmitSetups :
        /\ Idle("slurm_sbatch.main",
                [paramfile |-> f, setup |-> s,
                 command |-> PyStr(<<Lit("run"), Field("a")>>),
                 array |-> a, configfile |-> c, sbatch |-> o,
                 sbatch_filename |-> n])

Init ==
    \/ InitCountProduct
    \/ InitNthProduct
    \/ InitGetCount
    \/ InitSubstituteNth
    \/ InitValidateParamDict
    \/ InitGetSbatchConfig
    \/ InitGetArrayArgument
    \/ InitTaskMain
    \/ InitSubmitMain

-----------------------------------------------------------------------------
(* Calls of the library functions. *)

Return(r) ==
    /\ pc' = "done"
    /\ ret' = r
    /\ UNCHANGED <<entry, args, locals, warnings, stdout, files, sbatch>>

\* a call that may warn before it returns or raises
ReturnWarned(r) ==
    /\ pc' = "done"
    /\ ret' = [err |-> r.err, val |-> r.val]
    /\ warnings' = warnings \o r.warnings
    /\ UNCHANGED <<entry, args, locals, stdout, files, sbatch>>

CountProduct ==
    /\ entry = "count_product"
    /\ pc = "call"
    /\ Return(Ok(count_product(args.lists)))

NthProduct ==
    /\ entry = "nth_product"
    /\ pc = "call"
    /\ Return(nth_product(args.index, args.lists))

GetCount ==
    /\ entry = "get_count"
    /\ pc = "call"
    /\ Return(Ok(get_count(args.params)))

SubstituteNth ==
    /\ entry = "substitute_nth"
    /\ pc = "call"
    /\ Return(substitute_nth(args.nth, args.params, args.command))

ValidateParamDict ==
    /\ entry = "validate_param_dict"
    /\ pc = "call"
    /\ LET r == validate_param_dict(args.dict_lists)
       IN  ReturnWarned([err |-> "none", val |-> r.val, warnings |-> r.warnings])

GetSbatchConfig ==
    /\ entry = "get_sbatch_config"
    /\ pc = "call"
    /\ ReturnWarned(get_sbatch_config(args.configfile, args.overrides))

GetArrayArgument ==
    /\ entry = "get_array_argument"
    /\ pc = "call"
    /\ ReturnWarned(get_array_argument(args.template, args.paramfile))

-----------------------------------------------------------------------------
(* slurm_utils.main, the per-task CLI. *)

\* an uncaught exception ends the process
Abort(e) ==
    /\ pc' = "failed"
    /\ ret' = Raise(e)

\* params = read_paramfile(args.paramfile)
TaskReadParamfile ==
    /\ entry = "slurm_utils.main"
    /\ pc = "call"
    /\ LET params == read_paramfile(args.paramfile)
       IN  /\ warnings' = warnings \o params.warnings
           /\ IF params.err # "none"
              THEN Abort(params.err) /\ UNCHANGED locals
              ELSE /\ pc' = "dispatch"
                   /\ locals' = [params |-> params.val]
                   /\ UNCHANGED ret
    /\ UNCHANGED <<entry, args, stdout, files, sbatch>>

\* if args.count: print(get_count(params))
TaskPrintCount ==
    /\ entry = "slurm_utils.main"
    /\ pc = "dispatch"
    /\ task_mode(args.count, args.nth) = "count"
    /\ stdout' = Append(stdout, <<ToString(get_count(locals.params))>>)
    /\ pc' = "done"
    /\ UNCHANGED <<entry, args, locals, ret, warnings, files, sbatch>>

\* elif args.nth is not None: ... print(substitute_nth(...))
TaskPrintNth ==
    /\ entry = "slurm_utils.main"
    /\ pc = "dispatch"
    /\ task_mode(args.count, args.nth) = "nth"
    /\ LET substituted == task_nth(args.nth, locals.params, args.command)
       IN  IF substituted.err # "none"
           THEN Abort(substituted.err) /\ UNCHANGED stdout
           ELSE /\ stdout' = Append(stdout, substituted.val)
                /\ pc' = "done"
                /\ UNCHANGED ret
    /\ UNCHANGED <<entry, args, locals, warnings, files, sbatch>>

\* neither --count nor --nth: main() returns without printing
TaskNoOutput ==
    /\ entry = "slurm_utils.main"
    /\ pc = "dispatch"
    /\ task_mode(args.count, args.nth) = "none"
    /\ pc' = "done"
    /\ UNCHANGED <<entry, args, locals, ret, warnings, stdout, files, sbatch>>

-----------------------------------------------------------------------------
(* slurm_sbatch.main, the submission CLI. *)

Step(name) == [locals EXCEPT !.steps = Append(@, name)]

\* array_argument = get_array_argument(args.array, args.paramfile)
SubmitArrayArgument ==
    /\ entry = "slurm_sbatch.main"
    /\ pc = "call"
    /\ LET array_argument == get_array_argument(args.array, args.paramfile)
       IN  /\ warnings' = warnings \o array_argument.warnings
           /\ IF array_argument.err # "none"
              THEN Abort(array_argument.err) /\ locals' = Step("array_argument")
              ELSE /\ pc' = "sbatch_config"
                   /\ locals' = [Step("array_argument") EXCEPT
                                    !.array_argument = array_argument.val]
                   /\ UNCHANGED ret
    /\ UNCHANGED <<entry, args, stdout, files, sbatch>>

\* sbatch_config = get_sbatch_config(args.configfile, args.sbatch)
SubmitSbatchConfig ==
    /\ entry = "slurm_sbatch.main"
    /\ pc = "sbatch_config"
    /\ LET sbatch_config == get_sbatch_config(args.configfile, args.sbatch)
       IN  /\ warnings' = warnings \o sbatch_config.warnings
           /\ IF sbatch_config.err # "none"
              THEN Abort(sbatch_config.err) /\ locals' = Step("sbatch_config")
              ELSE /\ pc' = "batchfile_contents"
                   /\ locals' = [Step("sbatch_config") EXCEPT
                                    !.sbatch_config = sbatch_config.val]
                   /\ UNCHANGED ret
    /\ UNCHANGED <<entry, args, stdout, files, sbatch>>

\* batchfile_contents = make_batchfile_contents(...)
SubmitBatchfileContents ==
    /\ entry = "slurm_sbatch.main"
    /\ pc = "batchfile_contents"
    /\ pc' = "write"
    /\ locals' = [Step("batchfile_contents") EXCEPT
                     !.batchfile_contents =
                         make_batchfile_contents(args.setup, args.command,
                                                 args.paramfile,
                                                 locals.sbatch_config)]
    /\ UNCHANGED <<entry, args, ret, warnings, stdout, files, sbatch>>

\* sbatch_filename = write_sbatch_file(...), and the print of a temporary name
SubmitWrite ==
    /\ entry = "slurm_sbatch.main"
    /\ pc = "write"
    /\ \E outcome \in WriteOutcomes :
           LET written == write_sbatch_file(locals.batchfile_contents,
                                           args.sbatch_filename, outcome)
           IN  /\ files' = files \cup written.files
               /\ IF written.err # "none"
                  THEN /\ Abort(written.err)
                       /\ locals' = Step("write")
                       /\ UNCHANGED stdout
                  ELSE /\ pc' = "sbatch"
                       /\ locals' = [Step("write") EXCEPT
                                        !.sbatch_filename = written.val]
                       /\ stdout' = IF args.sbatch_filename = None
                                    THEN Append(stdout,
                                           <<"Wrote temporary sbatch file to ",
                                             written.val>>)
                                    ELSE stdout
                       /\ UNCHANGED ret
    /\ UNCHANGED <<entry, args, warnings, sbatch>>

\* subprocess.run(["sbatch", f"--array={array_argument}", sbatch_filename],
\*                check=True)
SubmitSbatch ==
    /\ entry = "slurm_sbatch.main"
    /\ pc = "sbatch"
    /\ \E returncode \in ReturnCodes :
           LET run == run_sbatch(locals.array_argument, locals.sbatch_filename,
                                 returncode)
           IN  /\ sbatch' = Append(sbatch, run.cmd)
               /\ locals' = [Step("sbatch") EXCEPT !.returncode = returncode]
               /\ IF run.err # "none"
                  THEN Abort(run.err)
                  ELSE pc' = "done" /\ UNCHANGED ret
    /\ UNCHANGED <<entry, args, warnings, stdout, files>>

Next ==
    \/ CountProduct
    \/ NthProduct
    \/ GetCount
    \/ SubstituteNth
    \/ ValidateParamDict
    \/ GetSbatchConfig
    \/ GetArrayArgument
    \/ TaskReadParamfile
    \/ TaskPrintCount
    \/ TaskPrintNth
    \/ TaskNoOutput
    \/ SubmitArrayArgument
    \/ SubmitSbatchConfig
    \/ SubmitBatchfileContents
    \/ SubmitWrite
    \/ SubmitSbatch

Spec == Init /\ [][Next]_vars

-----------------------------------------------------------------------------
(* Reference definitions the claims are stated against. *)

\* the concatenation of a sequence of sequences
RECURSIVE Flatten(_)
Flatten(ss) == IF ss = <<>> THEN <<>> ELSE Head(ss) \o Flatten(Tail(ss))

\* the cartesian product of `lists` enumerated by nested loops, the first list
\* outermost (most significant) and the last list innermost (varying fastest)
RECURSIVE Product(_)
Product(lists) ==
    IF lists = <<>> THEN << <<>> >>
    ELSE LET first == Head(lists)
             rest == Product(Tail(lists))
         IN  Flatten([i \in 1..Len(first) |->
                        [j \in 1..Len(rest) |-> <<first[i]>> \o rest[j]]])

\* the product of the lengths of the lists, 1 for no list
RECURSIVE ProductOfLengths(_)
ProductOfLengths(lists) ==
    IF lists = <<>> THEN 1
    ELSE Len(Head(lists)) * ProductOfLengths(Tail(lists))

Called(e) == entry = e /\ pc = "done"

-----------------------------------------------------------------------------
(* C1: for every list of value-lists, nth_product(i, lists) for               *)
(* i = 0 .. count_product(lists)-1 in increasing order is exactly the         *)
(* cartesian product of the lists in lexicographic order, the first list most *)
(* significant and the last varying fastest; each result has one element per  *)
(* list, the k-th taken from the k-th list.                                   *)
C1_Enumeration ==
    Called("nth_product") =>
        LET lists == args.lists
            total == count_product(lists)
        IN  /\ total = Len(Product(lists))
            /\ \A i \in 0..(total - 1) :
                    nth_product(i, lists) = Ok(Product(lists)[i + 1])
            /\ args.index \in 0..(total - 1) =>
                    /\ ret = Ok(Product(lists)[args.index + 1])
                    /\ Len(ret.val) = Len(lists)
                    /\ \A k \in 1..Len(lists) :
                            \E j \in 1..Len(lists[k]) : ret.val[k] = lists[k][j]

C1_Witness ==
    /\ Called("nth_product")
    /\ Len(args.lists) = 3
    /\ Len(args.lists[1]) = 3 /\ Len(args.lists[2]) = 2 /\ Len(args.lists[3]) = 1
    /\ args.index = 2
    /\ ret = Ok(<<12, 21, 31>>)

(* C2: count_product(lists) is 1 for no list and otherwise the product of the *)
(* lengths of the lists (0 as soon as one list is empty); get_count(params)   *)
(* is that value for the value-lists of params in key order; neither raises.  *)
C2_Count ==
    /\ Called("count_product") =>
            /\ ret = Ok(ProductOfLengths(args.lists))
            /\ args.lists = <<>> => ret.val = 1
            /\ (\E k \in 1..Len(args.lists) : args.lists[k] = <<>>) => ret.val = 0
    /\ Called("get_count") =>
            ret = Ok(ProductOfLengths([k \in 1..Len(args.params) |->
                                         args.params[k][2]]))

C2_Witness ==
    /\ Called("count_product")
    /\ Len(args.lists) = 3
    /\ Len(args.lists[1]) = 3 /\ Len(args.lists[2]) = 2 /\ Len(args.lists[3]) = 1
    /\ ret = Ok(6)

C2_WitnessGetCount ==
    /\ Called("get_count")
    /\ Len(args.params) = 2
    /\ ret = Ok(4)

(* C3: for every lists, the empty list of lists included (total = 1), and     *)
(* every index outside [-total, total), nth_product raises IndexError instead *)
(* of returning a tuple.                                                      *)
C3_OutOfRangeRaises ==
    Called("nth_product") =>
        LET total == ProductOfLengths(args.lists)
        IN  (args.index < -total \/ args.index >= total) =>
                ret.err = "IndexError"

(* C4: for every lists and every index i with -total <= i < 0,                *)
(* nth_product(i, lists) returns what nth_product(i + total, lists) returns:  *)
(* the wraparound is applied once.                                            *)
C4_NegativeIndex ==
    Called("nth_product") =>
        LET total == ProductOfLengths(args.lists)
        IN  (-total <= args.index /\ args.index < 0) =>
                /\ ret.err = "none"
                /\ ret = nth_product(args.index + total, args.lists)
                /\ ret.val = Product(args.lists)[total + args.index + 1]

C4_Witness ==
    /\ Called("nth_product")
    /\ Len(args.lists) = 3
    /\ Len(args.lists[1]) = 2 /\ Len(args.lists[2]) = 3 /\ Len(args.lists[3]) = 2
    /\ args.index = -5
    /\ ret = Ok(<<12, 21, 32>>)

(* C5: for every valid index and parameter set, substitute_nth raises         *)
(* KeyError, and returns no partly substituted command, whenever the template *)
(* has a placeholder that is no key of params; when every placeholder is a    *)
(* key, it returns the template with each {name} replaced by the value the    *)
(* combination of that index holds for name.                                  *)
C5_Substitute ==
    Called("substitute_nth") =>
        LET lists == [k \in 1..Len(args.params) |-> args.params[k][2]]
            total == ProductOfLengths(lists)
            names == { args.params[k][1] : k \in 1..Len(args.params) }
            missing == \E p \in 1..Len(args.command) :
                          /\ args.command[p].kind = "field"
                          /\ args.command[p].text \notin names
            wrapped == IF args.nth < 0 THEN args.nth + total ELSE args.nth
            combination == Product(lists)[wrapped + 1]
            PositionOf(name) ==
                CHOOSE k \in 1..Len(args.params) : args.params[k][1] = name
        IN  (-total <= args.nth /\ args.nth < total) =>
                IF missing
                THEN ret = Raise("KeyError")
                ELSE ret = Ok([p \in 1..Len(args.command) |->
                                IF args.command[p].kind = "lit"
                                THEN args.command[p].text
                                ELSE ToString(combination[
                                         PositionOf(args.command[p].text)])])

C5_WitnessMissing ==
    /\ Called("substitute_nth")
    /\ args.params = <<<<"b", <<11, 12>>>>, <<"a", <<21, 22>>>>>>
    /\ args.nth = 2
    /\ args.command = <<Field("a"), Field("unknown")>>
    /\ ret.err = "KeyError"

C5_Witness ==
    /\ Called("substitute_nth")
    /\ args.params = <<<<"b", <<11, 12>>>>, <<"a", <<21, 22>>>>>>
    /\ args.nth = 2
    /\ args.command = <<Field("a"), Field("b")>>
    /\ ret = Ok(<<"21", "12">>)

(* C6: validate_param_dict returns exactly the input entries whose key is a   *)
(* string and whose value is a list, in input order and with unchanged        *)
(* values; it warns once for each discarded entry and never raises.           *)
C6_Validate ==
    Called("validate_param_dict") =>
        LET Accepted(e) == e[1].type = "str" /\ e[2].type = "list"
            Discarded(e) == ~Accepted(e)
        IN  /\ ret = Ok(SelectSeq(args.dict_lists, Accepted))
            /\ Len(warnings) = Len(SelectSeq(args.dict_lists, Discarded))
            /\ \A w \in 1..Len(warnings) :
                    LET e == SelectSeq(args.dict_lists, Discarded)[w]
                    IN  /\ warnings[w].key = e[1]
                        /\ warnings[w].val = e[2]
                        /\ warnings[w].category = "UserWarning"

C6_Witness ==
    /\ Called("validate_param_dict")
    /\ args.dict_lists = << <<PyStr("b"), PyList(<<11, 12>>)>>,
                            <<PyInt(1), PyList(<<>>)>>,
                            <<PyStr("a"), PyInt(3)>> >>
    /\ ret = Ok(<< <<PyStr("b"), PyList(<<11, 12>>)>> >>)
    /\ Len(warnings) = 2

(* C7: get_sbatch_config returns the base mapping (keys and values as         *)
(* strings) with every well-formed "key=value" override, split on the first   *)
(* '=', applied: an override of a base key replaces that entry's value at its *)
(* position, a new key is appended after all base entries, every other base   *)
(* entry is unchanged, an override without '=' is skipped with a warning and  *)
(* changes nothing, and with overrides = None the base mapping is returned.   *)
C7_ConfigMerge ==
    (Called("get_sbatch_config") /\ args.configfile.readable) =>
        LET raw == args.configfile.data
            base == [k \in 1..Len(raw) |-> <<raw[k][1].str, py_str(raw[k][2])>>]
            given == IF args.overrides = None THEN <<>> ELSE args.overrides.list
            WellFormed(o) == \E i \in 1..Len(o) : o[i] = "="
            wf == SelectSeq(given, WellFormed)
            FirstEq(o) == CHOOSE i \in 1..Len(o) :
                              o[i] = "=" /\ \A j \in 1..(i - 1) : o[j] # "="
            KeyOf(o) == SubSeq(o, 1, FirstEq(o) - 1)
            ValOf(o) == SubSeq(o, FirstEq(o) + 1, Len(o))
            Overridden(key) == \E j \in 1..Len(wf) : KeyOf(wf[j]) = key
            LastFor(key) == wf[CHOOSE j \in 1..Len(wf) :
                                  /\ KeyOf(wf[j]) = key
                                  /\ \A m \in (j + 1)..Len(wf) : KeyOf(wf[m]) # key]
            FirstAt(key) == CHOOSE j \in 1..Len(wf) :
                                /\ KeyOf(wf[j]) = key
                                /\ \A m \in 1..(j - 1) : KeyOf(wf[m]) # key
            IsBaseKey(key) == \E k \in 1..Len(base) : base[k][1] = key
            config == ret.val
        IN  /\ ret.err = "none"
            /\ Len(config) >= Len(base)
            /\ \A k \in 1..Len(base) :
                    /\ config[k][1] = base[k][1]
                    /\ config[k][2] = IF Overridden(base[k][1])
                                      THEN ValOf(LastFor(base[k][1]))
                                      ELSE base[k][2]
                    /\ (~Overridden(base[k][1]) /\ raw[k][2].type = "str") =>
                            config[k][2] = raw[k][2].str
            /\ \A k \in (Len(base) + 1)..Len(config) :
                    /\ ~IsBaseKey(config[k][1])
                    /\ Overridden(config[k][1])
                    /\ config[k][2] = ValOf(LastFor(config[k][1]))
            /\ \A j \in 1..Len(wf) :
                    \E k \in 1..Len(config) : config[k][1] = KeyOf(wf[j])
            /\ \A k, m \in 1..Len(config) :
                    (k # m) => config[k][1] # config[m][1]
            /\ \A k, m \in (Len(base) + 1)..Len(config) :
                    (k < m) => FirstAt(config[k][1]) < FirstAt(config[m][1])
            /\ Len(warnings) = Len(given) - Len(wf)
            /\ \A w \in 1..Len(warnings) : ~WellFormed(warnings[w].override)
            /\ args.overrides = None => (config = base /\ warnings = <<>>)

C7_Witness ==
    /\ Called("get_sbatch_config")
    /\ args.configfile = File(<< <<PyStr(<<"p">>), PyStr(<<"x">>)>>,
                                 <<PyStr(<<"t", "i", "m", "e">>), PyInt(15)>> >>)
    /\ args.overrides = PyList(<< <<"n", "=", "1">>, <<"p", "=", "2", "=", "3">> >>)
    /\ ret = Ok(<< << <<"p">>, <<"2", "=", "3">> >>,
                   << <<"t", "i", "m", "e">>, <<"1", "5">> >>,
                   << <<"n">>, <<"1">> >> >>)

C7_WitnessSkipped ==
    /\ Called("get_sbatch_config")
    /\ args.configfile = File(<< <<PyStr(<<"p">>), PyInt(2)>> >>)
    /\ args.overrides = PyList(<< <<"p">> >>)
    /\ ret = Ok(<< << <<"p">>, <<"2">> >> >>)
    /\ Len(warnings) = 1

(* C8: get_array_argument returns the template with {count} replaced by       *)
(* totalCount - 1, totalCount being the count of the validated parameter set  *)
(* of paramfile; with the default template "0-{count}" the range is 0 ..      *)
(* totalCount-1, so every array task index it names is accepted by            *)
(* nth_product for that paramfile and every combination index is named once.  *)
C8_ArrayArgument ==
    (Called("get_array_argument") /\ args.paramfile.readable) =>
        LET Accepted(e) == e[1].type = "str" /\ e[2].type = "list"
            valid == SelectSeq(args.paramfile.data, Accepted)
            lists == [k \in 1..Len(valid) |-> valid[k][2].list]
            totalCount == ProductOfLengths(lists)
            OnlyCount == \A p \in 1..Len(args.template) :
                             args.template[p].kind = "field"
                                 => args.template[p].text = "count"
        IN  /\ OnlyCount =>
                    ret = Ok([p \in 1..Len(args.template) |->
                               IF args.template[p].kind = "lit"
                               THEN args.template[p].text
                               ELSE ToString(totalCount - 1)])
            /\ args.template = <<Lit("0-"), Field("count")>> =>
                    /\ ret = Ok(<<"0-", ToString(totalCount - 1)>>)
                    /\ \A i \in 0..(totalCount - 1) :
                            nth_product(i, lists) = Ok(Product(lists)[i + 1])
                    /\ Len(Product(lists)) = totalCount

C8_Witness ==
    /\ Called("get_array_argument")
    /\ args.template = <<Lit("0-"), Field("count")>>
    /\ args.paramfile = File(<< <<PyStr("b"), PyList(<<21, 22, 23>>)>>,
                                <<PyStr("a"), PyList(<<11, 12>>)>> >>)
    /\ ret = Ok(<<"0-", "5">>)

(* C9: in every invocation of the per-task CLI at most one of --count / --nth *)
(* decides what is printed: with --count the total count and nothing else     *)
(* (also when --nth is given, even without --command); with --nth and         *)
(* --command only the substituted command; --nth without --command and        *)
(* without --count is a fatal error that prints nothing.                      *)
C9_TaskOutput ==
    entry = "slurm_utils.main" =>
        LET Accepted(e) == e[1].type = "str" /\ e[2].type = "list"
            valid == SelectSeq(args.paramfile.data, Accepted)
            params == [k \in 1..Len(valid) |-> <<valid[k][1].str, valid[k][2].list>>]
            lists == [k \in 1..Len(valid) |-> valid[k][2].list]
            finished == pc \in {"done", "failed"}
        IN  /\ Len(stdout) <= 1
            /\ pc = "failed" => (stdout = <<>> /\ ret.err # "none")
            /\ ~args.paramfile.readable => stdout = <<>>
            /\ (args.paramfile.readable /\ finished) =>
                  /\ args.count =>
                        /\ pc = "done"
                        /\ stdout = << <<ToString(ProductOfLengths(lists))>> >>
                  /\ (~args.count /\ args.nth # None /\ args.command = None) =>
                        /\ pc = "failed"
                        /\ ret = Raise("ValueError")
                        /\ stdout = <<>>
                  /\ (~args.count /\ args.nth # None /\ args.command # None) =>
                        LET substituted ==
                                substitute_nth(args.nth.int, params, args.command.str)
                        IN  IF substituted.err = "none"
                            THEN pc = "done" /\ stdout = <<substituted.val>>
                            ELSE pc = "failed" /\ ret = substituted
                  /\ (~args.count /\ args.nth = None) =>
                        pc = "done" /\ stdout = <<>>

C9_Witness ==
    /\ entry = "slurm_utils.main"
    /\ pc = "done"
    /\ args.count
    /\ args.nth = PyInt(2)
    /\ args.command = None
    /\ args.paramfile = File(<< <<PyStr("b"), PyList(<<21, 22, 23>>)>>,
                                <<PyStr("a"), PyList(<<11, 12>>)>> >>)
    /\ stdout = << <<"6">> >>

C9_WitnessNth ==
    /\ entry = "slurm_utils.main"
    /\ pc = "done"
    /\ ~args.count
    /\ args.nth = PyInt(2)
    /\ args.command = PyStr(<<Field("b"), Field("a")>>)
    /\ args.paramfile = File(<< <<PyStr("b"), PyList(<<21, 22, 23>>)>>,
                                <<PyStr("a"), PyList(<<11, 12>>)>> >>)
    /\ stdout = << <<"22", "11">> >>

C9_WitnessNoCommand ==
    /\ entry = "slurm_utils.main"
    /\ pc = "failed"
    /\ ~args.count /\ args.nth = PyInt(2) /\ args.command = None
    /\ ret = Raise("ValueError")

(* C10, as claimed: every invocation of the submission CLI is all-or-nothing: *)
(* an error at any step (unreadable paramfile or config file, or sbatch       *)
(* returning nonzero) leaves no partial result behind, that is, no written    *)
(* script file without a successful submission.                               *)
C10_NoScriptWithoutSubmission ==
    (entry = "slurm_sbatch.main" /\ pc = "failed"
        /\ locals.steps[Len(locals.steps)]
               \in {"array_argument", "sbatch_config", "sbatch"}) =>
        files = {}

SubmitOrder ==
    <<"array_argument", "sbatch_config", "batchfile_contents", "write", "sbatch">>

SubmitInvariant ==
    entry = "slurm_sbatch.main" =>
        LET steps == locals.steps
            last == steps[Len(steps)]
            name == IF args.sbatch_filename = None
                    THEN "tempfile" ELSE args.sbatch_filename.str
            script == [name |-> name, complete |-> TRUE,
                       contents |-> locals.batchfile_contents]
        IN  /\ steps = SubSeq(SubmitOrder, 1, Len(steps))
            /\ Len(sbatch) <= 1
            /\ sbatch # <<>> =>
                  /\ Len(steps) = 5
                  /\ sbatch[1] = <<"sbatch", [array |-> locals.array_argument], name>>
                  /\ files = {script}
            /\ pc = "failed" =>
                  /\ ret.err # "none"
                  /\ Len(steps) >= 1
                  /\ last = "array_argument" => ~args.paramfile.readable
                                                \/ ret.err = "KeyError"
                  /\ last = "sbatch_config" => ~args.configfile.readable
                  /\ last # "batchfile_contents"
                  /\ last = "sbatch" => locals.returncode # 0
                  /\ Len(steps) <= 3 => files = {}
                  /\ last = "write" =>
                        files \subseteq {[script EXCEPT !.complete = FALSE]}
                  /\ last = "sbatch" => files = {script}
            /\ pc = "done" =>
                  /\ steps = SubmitOrder
                  /\ locals.returncode = 0
                  /\ Len(sbatch) = 1
                  /\ files = {script}
            /\ pc \notin {"done", "failed"} =>
                  /\ sbatch = <<>>
                  /\ files = IF Len(steps) >= 4 THEN {script} ELSE {}

(* C10, amended: the steps of an invocation run in the order array range,     *)
(* scheduler config, script contents, write, sbatch (once, with the array     *)
(* range and the written script path); an error at any step aborts the        *)
(* invocation with no later step and no retry; an error before the write      *)
(* leaves no script file, a failing write leaves at most a partial one, and   *)
(* when sbatch returns nonzero the written script file stays on disk.         *)
C10_AbortKeepsScript ==
    /\ []SubmitInvariant
    /\ [][(entry = "slurm_sbatch.main" /\ pc \in {"done", "failed"}) => FALSE]_vars
    /\ [][entry = "slurm_sbatch.main" =>
             /\ Len(locals'.steps) = Len(locals.steps) + 1
             /\ pc' = "failed" \/ pc' = "done"
                    \/ pc' = SubmitOrder[Len(locals'.steps) + 1]]_vars

C10_Witness ==
    /\ entry = "slurm_sbatch.main"
    /\ pc = "failed"
    /\ ret = Raise("CalledProcessError")
    /\ locals.returncode = 1
    /\ Len(sbatch) = 1
    /\ \E f \in files : f.complete /\ f.name = "tempfile"

====
